---- MODULE Spec2Model ----
(***************************************************************************)
(* Model of the Lane County scrapers:                                      *)
(*   - search   (scrape_lane_county_property.py): recursive subdivision of *)
(*               a numeric prefix against a capped query surface;          *)
(*   - retry    (lcapps.py, scrape_lane_county_account.py): the backoff    *)
(*               decorator;                                                *)
(*   - write_csv (lcapps.py): the appending CSV sink;                      *)
(*   - get_page / get_paginated / run (scrape_lane_county_jail_viewer.py). *)
(* Each part has its own specification over the shared variables; the      *)
(* variables of the other parts stay parked at their initial values.       *)
(***************************************************************************)
EXTENDS Integers, Sequences, FiniteSets, TLC

(***************************************************************************)
(* Bounds of the model.                                                    *)
(***************************************************************************)
\* The cap of the query surface.  The source compares against the literal
\* "of 100 items"; the model scales the cap down so that a store of a few
\* records reaches it.
Cap == 2
\* Longest key (map-and-taxlot number) held by the query surface.
MaxKeyLen == 2
\* Largest number of records held by the query surface.
MaxRecords == 3

\* range(10) in search: the extension digits 0..9 and the factor of prefix * 10.
Base == 10

\* Digits the stored keys are made of.
KeyDigits == {0, 1}
\* Root prefixes handed to search (main: int(i) of every line of the file).
Roots == {0, 1, 2, 10}

\* Depth at which the interpreter refuses another nested call of search
\* (RecursionError); scaled to the model, always deeper than any key.
RecursionLimit == MaxKeyLen + 4

\* Most records of one batch, most calls of write_csv, and most records passed
\* to write_csv over all calls.
MaxBatch == 2
MaxWrites == 2
MaxRows == 4

\* Rows of a full result page.  run compares n_candidates with the literal
\* 15; the model scales the page down.
PageSize == 2
\* Most result pages of the surface.
MaxPages == 2

\* Most characters of an address text given to a normalizer.
MaxAddrLen == 5

\* Most rows of the "Account Information" table that are missing.
MaxAbsent == 1

\* Most roots given to an entry point.
MaxRoots == 2

\* def retry(times_to_retry=5)
DefaultTimesToRetry == 5
\* What a wrapped operation may be called with, return and raise.
Args == {"row1", "row2"}
Values == {"v"}
ErrKinds == {"TimeoutError", "AssertionError"}

VARIABLES
    \* ---- property scraper: search ----
    store,      \* the query surface's records: sequence of keys, in table order
    root,       \* the prefix main passes to run / search
    stack,      \* activation records of search, innermost last
    result,     \* outcome of the outermost search call
    queries,    \* every query text submitted, in order
    lastCall    \* the search activation that finished last

searchVars == <<store, root, stack, result, queries, lastCall>>

VARIABLES
    \* ---- retry(times_to_retry)(func): one call of wrapper ----
    times_to_retry, \* the decorator's argument
    rpc,            \* "ready": wrapper about to call func; "running": func
                    \* executing; "sleeping": inside sleep(); "returned";
                    \* "raised"
    n_tries,        \* the keyword argument n_tries of the current wrapper call
    rargs,          \* the arguments of the outermost call
    calls,          \* the arguments func received, one entry per attempt
    errs,           \* the exceptions func raised, one entry per failed attempt
    sleeps,         \* the durations passed to sleep, in order
    rlog,           \* every step of the call, in order
    rout            \* what the outermost wrapper call gave its caller

retryVars == <<times_to_retry, rpc, n_tries, rargs, calls, errs, sleeps, rlog,
               rout>>

VARIABLES
    \* ---- write_csv(output, rows, dest) and the file system it writes to ----
    dest,       \* the dest argument of every call ("" or a directory)
    dirs,       \* the directories that exist
    file,       \* os.path.join(dest, output): whether it exists, and its lines
    file0,      \* the file before the first call
    wlog        \* the batches passed to write_csv, in order

sinkVars == <<dest, dirs, file, file0, wlog>>

VARIABLES
    \* ---- jail viewer: run / get_paginated / get_page / get_booking ----
    pageRows,       \* the result pages of the surface: rows on each page
    n_candidates,   \* the "Total Candidates:" heading
    jpc,            \* where run is: "search", "load" (get_page waits for the
                    \* page), "rows" (the comprehension over the rows),
                    \* "booking" (inside a get_booking call), "pager"
                    \* (get_paginated looks for ">"), "done", "raised"
    paginated,      \* run chose get_paginated
    cur,            \* the result page shown
    row,            \* the next row of the comprehension of get_page
    jresults,       \* the bookings collected so far, in order
    jout,           \* what run gave its caller
    jops,           \* what run did on the result pages, in order:
                    \* <<"submit", 0>> the Search button, <<"rows", p>> the
                    \* rows of page p taken by get_page, <<"next", p>> the
                    \* ">" link clicked on page p
    jfiles,         \* the files main writes: name -> file
    detail_open,    \* the current attempt of get_booking holds its detail
                    \* page open
    left_open       \* the detail pages that the current call of get_booking
                    \* opened in the browser context and has not closed

jailVars ==
    <<pageRows, n_candidates, jpc, paginated, cur, row, jresults, jout, jops,
      jfiles, detail_open, left_open>>

VARIABLES
    \* ---- normalizers: clean_money / clean_address_2 / clean_address_4 ----
    nparts,         \* the text given to the normalizer, in its parts; a text
                    \* is a sequence of characters
    nfun,           \* the normalizer applied, "none" before
    nout,           \* what it returned or raised
    nagain          \* what it gave for its own output, read as text again

normVars == <<nparts, nfun, nout, nagain>>

VARIABLES
    \* ---- account scraper: run, get_account_lot_payer_owner,
    \*      get_residential_building ----
    arows,          \* the rows of the "Account Information" table:
                    \* label -> [found, text]
    bpage,          \* the "Residential Building" part of the taxlot page
    apc,            \* where run is: "account", "building", "done", "raised"
    atries,         \* n_tries of the wrapper of retry around run
    ainfo,          \* what get_account_lot_payer_owner returned or raised
    binfo,          \* what get_residential_building returned or raised
    alog            \* the warnings and errors logged, in order

accountVars == <<arows, bpage, apc, atries, ainfo, binfo, alog>>

VARIABLES
    \* ---- the entry points: main of the three scrapers ----
    prog,           \* the script started
    dry_run,        \* args.dry_run
    mroots,         \* the resolved roots: accounts or search prefixes
    midx,           \* the place in mroots of the next root of the loop
    mpc,            \* "loop", "done", "raised"
    printed,        \* the roots printed, in order
    mruns,          \* the roots run was called for, in order
    mwrites         \* the calls of write_csv: <<file, rows>>, in order

mainVars == <<prog, dry_run, mroots, midx, mpc, printed, mruns, mwrites>>

\* The parts that the enumerators, the retrier and the sink do not touch.
restVars == <<normVars, accountVars, mainVars>>

vars == <<searchVars, retryVars, sinkVars, jailVars, restVars>>

(***************************************************************************)
(* Helpers                                                                 *)
(***************************************************************************)
Min(a, b) == IF a < b THEN a ELSE b

\* str(prefix): the decimal digits of a non-negative int, no leading zeros.
RECURSIVE Str(_)
Str(p) == IF p < Base THEN <<p>> ELSE Str(p \div Base) \o <<p % Base>>

\* key.startswith(q)
StartsWith(key, q) == /\ Len(q) <= Len(key)
                      /\ SubSeq(key, 1, Len(q)) = q

\* Lexicographic order of digit strings (the order of the result table).
RECURSIVE LexLeq(_, _)
LexLeq(a, b) ==
    IF a = <<>> THEN TRUE
    ELSE IF b = <<>> THEN FALSE
    ELSE IF Head(a) # Head(b) THEN Head(a) < Head(b)
    ELSE LexLeq(Tail(a), Tail(b))

Keys == UNION {[1..n -> KeyDigits] : n \in 1..MaxKeyLen}

Stores == {s \in UNION {[1..n -> Keys] : n \in 0..MaxRecords} :
              \A i \in 1..(Len(s) - 1) : LexLeq(s[i], s[i + 1])}

\* parse_row: the record of table row i.
ParseRow(i) == [account |-> i, map_and_tax_lot |-> store[i]]

\* The rows the surface shows for query text q: the stored records whose key
\* starts with q, in table order.
RECURSIVE RowsFrom(_, _)
RowsFrom(q, i) ==
    IF i > Len(store) THEN <<>>
    ELSE (IF StartsWith(store[i], q) THEN <<i>> ELSE <<>>) \o RowsFrom(q, i + 1)

Matching(q) == RowsFrom(q, 1)

\* The pager text read into items_found, for a surface that answers
\* consistently: the number of matching records, capped.
NoItems == [kind |-> "none", n |-> 0]
OfItems(k) == [kind |-> "of", n |-> k]
Weird == [kind |-> "weird", n |-> 0]
Unread == [kind |-> "unread", n |-> 0]

ItemsFound(q) ==
    LET c == Len(Matching(q))
    IN  IF c = 0 THEN NoItems ELSE OfItems(Min(c, Cap))

\* Nothing has finished yet.
NoCall == [prefix |-> -1, report |-> NoItems, nread |-> -1,
           outcome |-> "none", rows |-> <<>>]
NoResult == [kind |-> "none", rows |-> <<>>, err |-> "none"]

(***************************************************************************)
(* The state of a part that is not running.                                *)
(***************************************************************************)
NoOut == [kind |-> "none", val |-> "none", err |-> <<0, "none">>]

NoFile == [exists |-> FALSE, lines |-> <<>>]

ParkRetry ==
    /\ times_to_retry = DefaultTimesToRetry
    /\ rpc = "parked"
    /\ n_tries = 0
    /\ rargs = "none"
    /\ calls = <<>>
    /\ errs = <<>>
    /\ sleeps = <<>>
    /\ rlog = <<>>
    /\ rout = NoOut

ParkSearch ==
    /\ store = <<>>
    /\ root = 0
    /\ stack = <<>>
    /\ result = NoResult
    /\ queries = <<>>
    /\ lastCall = NoCall

ParkSink ==
    /\ dest = ""
    /\ dirs = {}
    /\ file = NoFile
    /\ file0 = NoFile
    /\ wlog = <<>>

NoValue == [kind |-> "none", type |-> "none", val |-> <<>>]
ParkNorm ==
    /\ nparts = <<>>
    /\ nfun = "none"
    /\ nout = NoValue
    /\ nagain = NoValue
ParkAccount ==
    /\ arows = <<>>
    /\ bpage = <<>>
    /\ apc = "parked"
    /\ atries = 0
    /\ ainfo = NoValue
    /\ binfo = NoValue
    /\ alog = <<>>
ParkMain ==
    /\ prog = "none"
    /\ dry_run = FALSE
    /\ mroots = <<>>
    /\ midx = 0
    /\ mpc = "parked"
    /\ printed = <<>>
    /\ mruns = <<>>
    /\ mwrites = <<>>
ParkRest == ParkNorm /\ ParkAccount /\ ParkMain

NoJailOut == [kind |-> "none", step |-> "none", rows |-> <<>>]
\* main of the jail viewer writes three files into the working directory.
JailFileNames == {"bookings.csv", "custody.csv", "charges.csv"}
NoFiles == [name \in JailFileNames |-> NoFile]
ParkJail ==
    /\ pageRows = <<>>
    /\ n_candidates = 0
    /\ jpc = "parked"
    /\ paginated = FALSE
    /\ cur = 0
    /\ row = 0
    /\ jresults = <<>>
    /\ jout = NoJailOut
    /\ jops = <<>>
    /\ jfiles = NoFiles
    /\ detail_open = FALSE
    /\ left_open = 0


\* scrape(page): parse_row of every row of the table.
Scrape(q) == [j \in 1..Len(Matching(q)) |-> ParseRow(Matching(q)[j])]

(***************************************************************************)
(* retry: the wrapper of lcapps.py (the copy in                            *)
(* scrape_lane_county_account.py differs only in its log text)             *)
(***************************************************************************)
\* Mutant: every function that calls the query surface is decorated.
DecoratedAll(func) == TRUE
\* The functions under @retry(): get_booking is; search, run, get_page and
\* get_paginated are not.
Decorated(func) == func = "get_booking"
\* What becomes of an exception that leaves func.
Handling(func) == IF Decorated(func) THEN "retry" ELSE "propagate"

\* Mutant: the limit counts attempts instead of retries.
LimitExceededAtLimit(tries, limit) == tries >= limit
\* Mutant: one more retry is allowed than the limit.
LimitExceededLate(tries, limit) == tries > limit + 1
\* (n_tries := n_tries + 1) > times_to_retry
LimitExceeded(tries, limit) == tries > limit
\* Mutant: the duration is taken from n_tries before it is counted up.
SleepDurationBeforeCount(tries) == (tries - 1) * (tries - 1) * (tries - 1)
\* Mutant: the duration is squared, not cubed.
SleepDurationSquared(tries) == tries * tries
\* sleep_duration := n_tries**3
SleepDuration(tries) == tries * tries * tries
\* Mutant: the exception of the first attempt reaches the caller.
ReraiseFirst(raised) == raised[1]
\* the bare raise of the innermost wrapper re-raises the exception it is
\* handling; the outer wrappers called it from their except blocks, outside
\* their try, so it passes through them unchanged.
Reraise(raised) == raised[Len(raised)]

\* line 25: wrapper calls func(*args, **kwargs).
RetryAttempt ==
    /\ rpc = "ready"
    /\ rpc' = "running"
    /\ calls' = Append(calls, rargs)
    /\ rlog' = Append(rlog, [ev |-> "start", k |-> Len(calls) + 1])
    /\ UNCHANGED <<times_to_retry, n_tries, rargs, errs, sleeps, rout>>

\* line 25: func returns; every wrapper on the call chain returns its value.
RetryReturn ==
    /\ rpc = "running"
    /\ \E v \in Values :
          /\ rout' = [kind |-> "value", val |-> v, err |-> <<0, "none">>]
          /\ rlog' = Append(rlog, [ev |-> "ok", k |-> Len(calls)])
    /\ rpc' = "returned"
    /\ UNCHANGED <<times_to_retry, n_tries, rargs, calls, errs, sleeps>>

\* lines 26-43: func raises; count the try, then give up or start to sleep.
RetryExcept ==
    /\ rpc = "running"
    /\ \E kind \in ErrKinds :
          LET err == <<Len(calls), kind>>
              raised == Append(errs, err)
              failed == Append(rlog, [ev |-> "fail", k |-> Len(calls)])
          IN  /\ errs' = raised
              /\ n_tries' = n_tries + 1
              /\ IF LimitExceeded(n_tries + 1, times_to_retry)
                 THEN /\ rpc' = "raised"
                      /\ rout' = [kind |-> "error", val |-> "none",
                                  err |-> Reraise(raised)]
                      /\ rlog' = failed
                      /\ UNCHANGED sleeps
                 ELSE /\ rpc' = "sleeping"
                      /\ sleeps' = Append(sleeps, SleepDuration(n_tries + 1))
                      /\ rlog' = Append(failed,
                                   [ev |-> "sleep",
                                    k |-> SleepDuration(n_tries + 1)])
                      /\ UNCHANGED rout
    /\ UNCHANGED <<times_to_retry, rargs, calls>>

\* lines 43-44: sleep returns; wrapper calls itself with the counted n_tries.
RetryWake ==
    /\ rpc = "sleeping"
    /\ rpc' = "ready"
    /\ rlog' = Append(rlog, [ev |-> "wake", k |-> n_tries])
    /\ UNCHANGED <<times_to_retry, n_tries, rargs, calls, errs, sleeps, rout>>

InitRetry ==
    /\ ParkRest
    /\ ParkSearch
    /\ ParkSink
    /\ ParkJail
    /\ times_to_retry \in 0..DefaultTimesToRetry
    /\ rpc = "ready"
    /\ n_tries = 0
    /\ rargs \in Args
    /\ calls = <<>>
    /\ errs = <<>>
    /\ sleeps = <<>>
    /\ rlog = <<>>
    /\ rout = NoOut

NextRetry ==
    \/ (RetryAttempt /\ UNCHANGED <<searchVars, sinkVars, jailVars, restVars>>)
    \/ (RetryReturn /\ UNCHANGED <<searchVars, sinkVars, jailVars, restVars>>)
    \/ (RetryExcept /\ UNCHANGED <<searchVars, sinkVars, jailVars, restVars>>)
    \/ (RetryWake /\ UNCHANGED <<searchVars, sinkVars, jailVars, restVars>>)

SpecRetry == InitRetry /\ [][NextRetry]_vars


(***************************************************************************)
(* Property scraper: search(page, prefix)                                  *)
(*                                                                         *)
(* A frame of the stack is one activation of search:                       *)
(*   prefix  its int argument                                              *)
(*   st      "call": about to submit its query; "loop": inside the list    *)
(*           comprehension over range(10)                                  *)
(*   n       the comprehension's next digit                                *)
(*   acc     the rows of the children finished so far, chained in order    *)
(***************************************************************************)
Frame(p) == [prefix |-> p, st |-> "call", n |-> 0, acc |-> <<>>]


Top == stack[Len(stack)]
Calling == stack # <<>> /\ Top.st = "call"
Looping == stack # <<>> /\ Top.st = "loop"

\* items_found.endswith("No items to display")
IsNoItems(items) == items.kind = "none"
\* items_found.endswith("of 100 items")
IsAtCap(items) == items.kind = "of" /\ items.n = Cap
\* re.search(" of ([1-9][0-9]*) items", items_found)
IsCount(items) == items.kind = "of"
\* Mutant: the comparison of scraped rows and reported total is dropped.
CountMismatchIgnored(n_scraped, found) == FALSE
\* n_scraped != found
CountMismatch(n_scraped, found) == n_scraped # found
\* the argument of the recursive call for digit n: prefix * 10 + n
ChildPrefix(prefix, n) == prefix * Base + n

\* search returns rows: the caller's comprehension takes them and moves to its
\* next digit; the outermost return is the result of run.
Return(report, nread, rows) ==
    /\ lastCall' = [prefix |-> Top.prefix, report |-> report, nread |-> nread,
                    outcome |-> "returned", rows |-> rows]
    /\ IF Len(stack) = 1
       THEN /\ stack' = <<>>
            /\ result' = [kind |-> "ok", rows |-> rows, err |-> "none"]
       ELSE /\ stack' = [SubSeq(stack, 1, Len(stack) - 1)
                            EXCEPT ![Len(stack) - 1] =
                                [@ EXCEPT !.acc = @ \o rows, !.n = @ + 1]]
            /\ UNCHANGED result

\* search raises: no activation of search catches anything, so the exception
\* unwinds every frame and leaves run.
Raise(report, nread, err) ==
    /\ lastCall' = [prefix |-> Top.prefix, report |-> report, nread |-> nread,
                    outcome |-> "raised", rows |-> <<>>]
    /\ stack' = <<>>
    /\ result' = [kind |-> "error", rows |-> <<>>, err |-> err]

Submit == queries' = Append(queries, Str(Top.prefix))

\* lines 86-88: nothing matches.
SearchNoItems ==
    /\ Calling
    /\ IsNoItems(ItemsFound(Str(Top.prefix)))
    /\ Submit
    /\ Return(ItemsFound(Str(Top.prefix)), -1, <<>>)
    /\ UNCHANGED <<store, root, retryVars, sinkVars, jailVars,
                   restVars>>

\* lines 89-92: the pager reports the cap; enter the comprehension.
SearchSubdivide ==
    /\ Calling
    /\ ~IsNoItems(ItemsFound(Str(Top.prefix)))
    /\ IsAtCap(ItemsFound(Str(Top.prefix)))
    /\ Submit
    /\ stack' = [stack EXCEPT ![Len(stack)] = [@ EXCEPT !.st = "loop"]]
    /\ UNCHANGED <<store, root, result, lastCall, retryVars, sinkVars, jailVars,
                   restVars>>

\* lines 93-97: the next recursive call of the comprehension; at the
\* interpreter's recursion limit the call raises instead.
SearchRecurse ==
    /\ Looping
    /\ Top.n < Base
    /\ IF Len(stack) < RecursionLimit
       THEN /\ stack' = Append(stack, Frame(ChildPrefix(Top.prefix, Top.n)))
            /\ UNCHANGED <<result, lastCall>>
       ELSE Raise(OfItems(Cap), -1, "recursion")
    /\ UNCHANGED <<store, root, queries, retryVars, sinkVars, jailVars,
                   restVars>>

\* lines 93-97: the comprehension is exhausted; return the chained rows.
SearchConcat ==
    /\ Looping
    /\ Top.n = Base
    /\ Return(OfItems(Cap), -1, Top.acc)
    /\ UNCHANGED <<store, root, queries, retryVars, sinkVars, jailVars,
                   restVars>>

\* lines 98-111: a count below the cap; scrape the table and compare.  The
\* table may be read before all of its rows are rendered.
SearchLeaf ==
    /\ Calling
    /\ LET q == Str(Top.prefix)
           items == ItemsFound(q)
       IN  /\ ~IsNoItems(items)
           /\ ~IsAtCap(items)
           /\ IsCount(items)
           /\ \E n_scraped \in {Len(Scrape(q)), Len(Scrape(q)) - 1} :
                 IF CountMismatch(n_scraped, items.n)
                 THEN Raise(items, n_scraped, "mismatch")
                 ELSE Return(items, n_scraped, SubSeq(Scrape(q), 1, n_scraped))
    /\ Submit
    /\ UNCHANGED <<store, root, retryVars, sinkVars, jailVars,
                   restVars>>

\* lines 112-114: the pager text is none of the three known shapes.
SearchWeird ==
    /\ Calling
    /\ Submit
    /\ Raise(Weird, -1, "weird")
    /\ UNCHANGED <<store, root, retryVars, sinkVars, jailVars,
                   restVars>>

\* lines 77-85: a call on the page (fill, click, text_content) times out.
\* search is not decorated with retry and catches nothing.
SearchTimeout ==
    /\ Calling
    /\ Submit
    /\ IF Handling("search") = "propagate"
          \/ LimitExceeded(Len(sleeps) + 1, times_to_retry)
       THEN /\ Raise(Unread, -1, "timeout")
            /\ UNCHANGED sleeps
       ELSE /\ sleeps' = Append(sleeps, SleepDuration(Len(sleeps) + 1))
            /\ UNCHANGED <<stack, result, lastCall>>
    /\ UNCHANGED <<store, root, times_to_retry, rpc, n_tries, rargs, calls,
                   errs, rlog, rout, sinkVars, jailVars, restVars>>

InitSearch ==
    /\ ParkRest
    /\ ParkRetry
    /\ ParkSink
    /\ ParkJail
    /\ store \in Stores
    /\ root \in Roots
    /\ stack = <<Frame(root)>>
    /\ result = NoResult
    /\ queries = <<>>
    /\ lastCall = NoCall

NextSearch ==
    \/ SearchNoItems
    \/ SearchSubdivide
    \/ SearchRecurse
    \/ SearchConcat
    \/ SearchLeaf
    \/ SearchWeird
    \/ SearchTimeout

SpecSearch == InitSearch /\ [][NextSearch]_vars

(***************************************************************************)
(* write_csv (lcapps.py)                                                   *)
(*                                                                         *)
(* A record is a dict: a sequence of <<field name, value>> pairs in        *)
(* insertion order, no name twice.  A line of the file is the sequence of  *)
(* its cells.                                                              *)
(***************************************************************************)
Fieldless == <<>>
RecA == << <<"account", "1">>, <<"owner", "x">> >>
RecB == << <<"account", "2">>, <<"owner", "y">> >>
RecC == << <<"owner", "x">>, <<"account", "3">>, <<"year", "y">> >>
Records == {Fieldless, RecA, RecB, RecC}
Batches == UNION {[1..n -> Records] : n \in 0..MaxBatch}
Dests == {"", "out"}

EmptyFile == [exists |-> TRUE, lines |-> <<>>]
OldFile == [exists |-> TRUE, lines |-> << <<"owner">>, <<"z">> >>]

\* rows[0].keys(): the field names in insertion order
FieldNames(rec) == [i \in 1..Len(rec) |-> rec[i][1]]
NameSet(rec) == {rec[i][1] : i \in 1..Len(rec)}
\* DictWriter._dict_to_list: rowdict.get(key, restval) with restval ""
Get(rec, key) ==
    IF key \in NameSet(rec)
    THEN rec[CHOOSE i \in 1..Len(rec) : rec[i][1] = key][2]
    ELSE ""
DictToList(rec, fieldnames) ==
    [i \in 1..Len(fieldnames) |-> Get(rec, fieldnames[i])]
\* DictWriter._dict_to_list: wrong_fields = rowdict.keys() - self.fieldnames,
\* ValueError when there are any (extrasaction "raise")
WrongFields(rec, fieldnames) ==
    NameSet(rec) \ {fieldnames[i] : i \in 1..Len(fieldnames)} # {}
\* writerows converts and writes row after row: the rows before the first one
\* with wrong fields reach the file, then the ValueError leaves write_csv.
RECURSIVE RowsWritten(_, _)
RowsWritten(rows, fieldnames) ==
    IF rows = <<>> \/ WrongFields(Head(rows), fieldnames) THEN <<>>
    ELSE <<DictToList(Head(rows), fieldnames)>>
             \o RowsWritten(Tail(rows), fieldnames)

\* Mutant: the header is written by every call.
HeaderAlways(lines) == TRUE
\* os.stat(output).st_size == 0: the file holds no line yet
HeaderNeeded(lines) == Len(lines) = 0

\* The number of records passed to write_csv so far.
RECURSIVE RowsPassed(_)
RowsPassed(batches) ==
    IF batches = <<>> THEN 0 ELSE Len(Head(batches)) + RowsPassed(Tail(batches))

\* Mutant: the field names are those of the first record that has fields.
FieldnamesOfFirstWithFields(rows) ==
    LET having == {j \in 1..Len(rows) : rows[j] # <<>>}
    IN  IF having = {} THEN <<>>
        ELSE FieldNames(rows[CHOOSE j \in having : \A k \in having : j <= k])
\* line 82: fieldnames = rows[0].keys()
Fieldnames(rows) == FieldNames(rows[1])

\* Mutant: the file is opened for writing, which truncates it.
OpenTruncate(lines) == <<>>
\* open(output, "a"): the content of the file is kept and writes go to its
\* end
OpenAppend(lines) == lines

\* Mutant: the directory is made before the batch is looked at.
MakedirsFirst(rows) == IF dest # "" THEN dirs \cup {dest} ELSE dirs
\* The directories after write_csv(output, rows, dest): the early returns of
\* lines 80-84 come before os.makedirs(dest, exist_ok=True), which runs only
\* for a dest that is not empty.
Makedirs(rows) ==
    IF rows = <<>> THEN dirs
    ELSE IF Fieldnames(rows) = <<>> THEN dirs
    ELSE IF dest # "" THEN dirs \cup {dest}
    ELSE dirs

\* The file after write_csv(output, rows): lines 80-84 return before the
\* file is opened; lines 89-93 open it for appending, write the header when
\* it is empty and then the rows.
Written(f, rows) ==
    IF rows = <<>> THEN f
    ELSE LET fieldnames == Fieldnames(rows)
         IN  IF fieldnames = <<>> THEN f
             ELSE [exists |-> TRUE,
                   lines |-> OpenAppend(f.lines)
                       \o (IF HeaderNeeded(f.lines)
                           THEN <<fieldnames>> ELSE <<>>)
                       \o RowsWritten(rows, fieldnames)]

\* lines 80-93.
WriteCsv ==
    /\ Len(wlog) < MaxWrites
    /\ \E rows \in Batches :
          /\ RowsPassed(wlog) + Len(rows) <= MaxRows
          /\ wlog' = Append(wlog, rows)
          /\ dirs' = Makedirs(rows)
          /\ file' = Written(file, rows)
    /\ UNCHANGED <<dest, file0>>

\* The file system before the first call: the destination directory and the
\* file may or may not exist; a file needs its directory.
InitSink ==
    /\ ParkRest
    /\ ParkSearch
    /\ ParkRetry
    /\ ParkJail
    /\ dest \in Dests
    /\ dirs \in SUBSET (Dests \ {""})
    /\ file \in {NoFile, EmptyFile, OldFile}
    /\ file.exists => (dest = "" \/ dest \in dirs)
    /\ file0 = file
    /\ wlog = <<>>

NextSink ==
    WriteCsv /\ UNCHANGED <<searchVars, retryVars, jailVars, restVars>>

SpecSink == InitSink /\ [][NextSink]_vars

(***************************************************************************)
(* Jail viewer: run, get_paginated, get_page and the decorated get_booking *)
(*                                                                         *)
(* A booking is named by <<page, row>>.  pageRows[p] is the number of rows *)
(* of result page p; page p shows a ">" link when a page follows it.       *)
(***************************************************************************)
Surfaces == UNION {[1..n -> 0..PageSize] : n \in 1..MaxPages}

RECURSIVE TotalRows(_)
TotalRows(pages) ==
    IF pages = <<>> THEN 0 ELSE Head(pages) + TotalRows(Tail(pages))

\* Mutant: the pager is never found to hold a ">".
HasNextNever == FALSE
\* ">" in table_pager.text_content()
HasNext == cur < Len(pageRows)

\* An exception leaves run: nothing in the jail viewer catches it.
JailRaise(step) ==
    /\ jpc' = "raised"
    /\ jout' = [kind |-> "error", step |-> step, rows |-> <<>>]

\* An exception leaves an undecorated function of the jail viewer.
JailStepFails(step) ==
    IF Handling(step) = "propagate"
          \/ LimitExceeded(Len(sleeps) + 1, times_to_retry)
    THEN /\ JailRaise(step)
         /\ UNCHANGED sleeps
    ELSE /\ sleeps' = Append(sleeps, SleepDuration(Len(sleeps) + 1))
         /\ UNCHANGED <<jpc, jout>>

\* Mutant: a total that differs from the rows collected raises, as it does
\* in search.
MismatchRaisesAsSearch(expected, got) == expected # got
\* run, lines 257-258: a total that differs from the rows collected is given
\* to logging.error; nothing is raised.
MismatchRaises(expected, got) == FALSE

\* run, lines 257-259: compare the total with the rows collected and return.
JailFinish ==
    IF MismatchRaises(n_candidates, Len(jresults))
    THEN JailRaise("count")
    ELSE /\ jpc' = "done"
         /\ jout' = [kind |-> (IF n_candidates # Len(jresults)
                               THEN "ok-logged-mismatch" ELSE "ok"),
                     step |-> "run", rows |-> jresults]

\* run, lines 240-256: submit the search, read the total, choose the reader.
JailSearch ==
    /\ jpc = "search"
    /\ jpc' = "load"
    /\ paginated' = (n_candidates > PageSize)
    /\ cur' = 1
    /\ jops' = Append(jops, <<"submit", 0>>)
    /\ UNCHANGED <<pageRows, n_candidates, row, jresults, jout, jfiles,
                   detail_open, left_open, retryVars>>

\* get_page, lines 195-198: wait for the page and take its rows.
JailLoad ==
    /\ jpc = "load"
    /\ jpc' = "rows"
    /\ row' = 1
    /\ jops' = Append(jops, <<"rows", cur>>)
    /\ UNCHANGED <<pageRows, n_candidates, paginated, cur, jresults, jout,
                   jfiles, detail_open, left_open, retryVars>>

\* A call of run, get_page or get_paginated on the page times out.
JailTimeout ==
    /\ jpc \in {"search", "load", "pager"}
    /\ JailStepFails(CASE jpc = "search" -> "run"
                       [] jpc = "load" -> "get_page"
                       [] jpc = "pager" -> "get_paginated")
    /\ UNCHANGED <<pageRows, n_candidates, paginated, cur, row, jresults,
                   jops, jfiles, detail_open, left_open, times_to_retry, rpc,
                   n_tries, rargs, calls, errs, rlog, rout>>

\* get_page, line 199: the comprehension calls get_booking for the next row;
\* the call enters the wrapper of retry with n_tries = 0.
JailBookingCall ==
    /\ jpc = "rows"
    /\ row <= pageRows[cur]
    /\ jpc' = "booking"
    /\ rpc' = "ready"
    /\ n_tries' = 0
    /\ rargs' = <<cur, row>>
    /\ calls' = <<>>
    /\ errs' = <<>>
    /\ sleeps' = <<>>
    /\ rlog' = <<>>
    /\ rout' = NoOut
    /\ detail_open' = FALSE
    /\ left_open' = 0
    /\ UNCHANGED <<times_to_retry, pageRows, n_candidates, paginated, cur, row,
                   jresults, jout, jops, jfiles>>

\* get_booking, line 138: page = context.new_page(), after the cells of the
\* row were read.
JailNewPage ==
    /\ jpc = "booking"
    /\ rpc = "running"
    /\ ~detail_open
    /\ detail_open' = TRUE
    /\ left_open' = left_open + 1
    /\ UNCHANGED <<pageRows, n_candidates, jpc, paginated, cur, row, jresults,
                   jout, jops, jfiles, retryVars>>

\* get_booking runs under the wrapper.  It returns from line 186, after
\* page.close() of line 185, the only close of the function; an exception
\* leaves it from any line before, with the page, if new_page was reached,
\* still open in the context and no longer referred to.
JailBookingStep ==
    /\ jpc = "booking"
    /\ \/ RetryAttempt /\ UNCHANGED <<detail_open, left_open>>
       \/ /\ detail_open
          /\ RetryReturn
          /\ detail_open' = FALSE
          /\ left_open' = left_open - 1
       \/ RetryExcept /\ detail_open' = FALSE /\ UNCHANGED left_open
       \/ RetryWake /\ UNCHANGED <<detail_open, left_open>>
    /\ UNCHANGED <<pageRows, n_candidates, jpc, paginated, cur, row, jresults,
                   jout, jops, jfiles>>

\* get_page, line 199: get_booking returned; the comprehension goes on.
JailBookingDone ==
    /\ jpc = "booking"
    /\ rpc = "returned"
    /\ jresults' = Append(jresults, rargs)
    /\ row' = row + 1
    /\ jpc' = "rows"
    /\ rpc' = "parked"
    /\ n_tries' = 0
    /\ rargs' = "none"
    /\ calls' = <<>>
    /\ errs' = <<>>
    /\ sleeps' = <<>>
    /\ rlog' = <<>>
    /\ rout' = NoOut
    /\ UNCHANGED <<times_to_retry, pageRows, n_candidates, paginated, cur, jout,
                   jops, jfiles, detail_open, left_open>>

\* The wrapper of get_booking gave up: its exception leaves get_page and run.
JailBookingRaised ==
    /\ jpc = "booking"
    /\ rpc = "raised"
    /\ JailRaise("get_booking")
    /\ UNCHANGED <<pageRows, n_candidates, paginated, cur, row, jresults,
                   jops, jfiles, detail_open, left_open, retryVars>>

\* get_page returns its list: to run (lines 256-259) or to get_paginated.
JailPageEnd ==
    /\ jpc = "rows"
    /\ row > pageRows[cur]
    /\ IF paginated
       THEN jpc' = "pager" /\ UNCHANGED jout
       ELSE JailFinish
    /\ UNCHANGED <<pageRows, n_candidates, paginated, cur, row, jresults,
                   jops, jfiles, detail_open, left_open, retryVars>>

\* get_paginated, lines 211-218: click ">" and read the next page, or break.
JailPager ==
    /\ jpc = "pager"
    /\ IF HasNext
       THEN /\ cur' = cur + 1
            /\ jpc' = "load"
            /\ jops' = Append(jops, <<"next", cur>>)
            /\ UNCHANGED jout
       ELSE /\ JailFinish
            /\ UNCHANGED <<cur, jops>>
    /\ UNCHANGED <<pageRows, n_candidates, paginated, row, jresults, jfiles,
                   detail_open, left_open, retryVars>>

\* The text of the booking number of row r of result page p.
BookingIds ==
    << <<"1-1", "1-2", "1-3">>, <<"2-1", "2-2", "2-3">>,
       <<"3-1", "3-2", "3-3">> >>
\* get_charge, lines 67-110 (of its twenty fields the two that name the
\* booking and one of the charge itself).
GetCharge(b) ==
    << <<"booking_number", BookingIds[b[1]][b[2]]>>,
       <<"inmate_id", BookingIds[b[1]][b[2]]>>,
       <<"violation", "v">> >>
\* get_charges, lines 113-125; the booking of row r has r - 1 charges.
GetCharges(b) == [i \in 1..(b[2] - 1) |-> GetCharge(b)]
\* The dict get_booking returns, lines 163-184 (the fields main tells apart
\* and one of the others).
GetBooking(b) ==
    << <<"booking_number", BookingIds[b[1]][b[2]]>>,
       <<"inmate_id", BookingIds[b[1]][b[2]]>>,
       <<"first_name", "n">>,
       <<"in_custody_as_of", "t">>,
       <<"charges", GetCharges(b)>> >>

\* {k: v for k, v in result.items() if k not in names}
Without(rec, names) ==
    LET Kept(kv) == kv[1] \notin names IN SelectSeq(rec, Kept)
\* {k: v for k, v in result.items() if k in names}
Only(rec, names) ==
    LET Kept(kv) == kv[1] \in names IN SelectSeq(rec, Kept)
\* list(chain.from_iterable([el["charges"] for el in results]))
RECURSIVE ChainCharges(_)
ChainCharges(results) ==
    IF results = <<>> THEN <<>>
    ELSE GetCharges(Head(results)) \o ChainCharges(Tail(results))

\* main, lines 322-340: the three lists made from the results of run.
MainBatch(name, results) ==
    CASE name = "bookings.csv" ->
            [i \in 1..Len(results) |->
                Without(GetBooking(results[i]),
                        {"charges", "in_custody_as_of"})]
      [] name = "custody.csv" ->
            [i \in 1..Len(results) |->
                Only(GetBooking(results[i]),
                     {"booking_number", "inmate_id", "in_custody_as_of"})]
      [] name = "charges.csv" -> ChainCharges(results)

\* main, lines 319-343: run has returned; the three lists are written with
\* write_csv, each to its file in the working directory.
JailWrite ==
    /\ jpc = "done"
    /\ jpc' = "written"
    /\ jfiles' = [name \in JailFileNames |->
                     Written(jfiles[name], MainBatch(name, jout.rows))]
    /\ UNCHANGED <<pageRows, n_candidates, paginated, cur, row, jresults, jout,
                   jops, detail_open, left_open, retryVars>>

\* The surface and the total it reports; the total may be off by a booking
\* made while the pages are read.
InitJailRun ==
    /\ ParkSearch
    /\ ParkSink
    /\ pageRows \in Surfaces
    /\ n_candidates \in {TotalRows(pageRows), TotalRows(pageRows) + 1}
    /\ jpc = "search"
    /\ paginated = FALSE
    /\ cur = 0
    /\ row = 0
    /\ jresults = <<>>
    /\ jout = NoJailOut
    /\ jops = <<>>
    /\ jfiles = NoFiles
    /\ detail_open = FALSE
    /\ left_open = 0
    /\ ParkRetry

InitJail == ParkRest /\ InitJailRun

NextJail ==
    \/ (JailSearch /\ UNCHANGED <<searchVars, sinkVars, restVars>>)
    \/ (JailLoad /\ UNCHANGED <<searchVars, sinkVars, restVars>>)
    \/ (JailTimeout /\ UNCHANGED <<searchVars, sinkVars, restVars>>)
    \/ (JailBookingCall /\ UNCHANGED <<searchVars, sinkVars, restVars>>)
    \/ (JailNewPage /\ UNCHANGED <<searchVars, sinkVars, restVars>>)
    \/ (JailBookingStep /\ UNCHANGED <<searchVars, sinkVars, restVars>>)
    \/ (JailBookingDone /\ UNCHANGED <<searchVars, sinkVars, restVars>>)
    \/ (JailBookingRaised /\ UNCHANGED <<searchVars, sinkVars, restVars>>)
    \/ (JailPageEnd /\ UNCHANGED <<searchVars, sinkVars, restVars>>)
    \/ (JailPager /\ UNCHANGED <<searchVars, sinkVars, restVars>>)
    \/ (JailWrite /\ UNCHANGED <<searchVars, sinkVars, restVars>>)

SpecJail == InitJail /\ [][NextJail]_vars

\* Both enumerators: the property scraper's subdivision or the jail viewer's
\* pagination, whichever program is started.
InitEnumerators == InitSearch \/ InitJail
NextEnumerators == NextSearch \/ NextJail
SpecEnumerators == InitEnumerators /\ [][NextEnumerators]_vars

(***************************************************************************)
(* Normalizers (scrape_lane_county_account.py)                             *)
(*                                                                         *)
(* A text is a sequence of characters.  A Decimal with two fraction digits *)
(* is [neg, cents]: its sign and its coefficient; Decimal keeps the sign   *)
(* of a zero.                                                              *)
(***************************************************************************)
\* The characters str.strip() removes, of those that occur in the texts.
Whitespace == {" ", "\n"}
DigitChars == <<"0", "1", "2", "3", "4", "5", "6", "7", "8", "9">>
IsDigit(c) == \E i \in 1..Len(DigitChars) : DigitChars[i] = c
DigitVal(c) == (CHOOSE i \in 1..Len(DigitChars) : DigitChars[i] = c) - 1

\* str.lstrip(chars), str.rstrip(chars), str.strip()
RECURSIVE lstrip(_, _)
lstrip(s, chars) ==
    IF s # <<>> /\ Head(s) \in chars THEN lstrip(Tail(s), chars) ELSE s
RECURSIVE rstrip(_, _)
rstrip(s, chars) ==
    IF s # <<>> /\ s[Len(s)] \in chars
    THEN rstrip(SubSeq(s, 1, Len(s) - 1), chars)
    ELSE s
str_strip(s) == rstrip(lstrip(s, Whitespace), Whitespace)

\* address.split("\n"): the pieces between the line breaks, at least one.
RECURSIVE split(_)
split(s) ==
    IF \A i \in 1..Len(s) : s[i] # "\n" THEN <<s>>
    ELSE LET i == CHOOSE k \in 1..Len(s) :
                      s[k] = "\n" /\ \A j \in 1..(k - 1) : s[j] # "\n"
         IN  <<SubSeq(s, 1, i - 1)>> \o split(SubSeq(s, i + 1, Len(s)))

\* [elem.strip() for elem in address.split("\n")]
StrippedLines(address) ==
    LET lines == split(address)
    IN  [i \in 1..Len(lines) |-> str_strip(lines[i])]

\* lines 60-65: the stripped lines that are not empty.
clean_address_2(address) ==
    LET Kept(elem) == elem # <<>> IN SelectSeq(StrippedLines(address), Kept)

\* dropwhile(lambda x: not x, iterable)
RECURSIVE dropwhile_not(_)
dropwhile_not(iterable) ==
    IF iterable # <<>> /\ Head(iterable) = <<>>
    THEN dropwhile_not(Tail(iterable))
    ELSE iterable
\* reversed(list)
reversed(list) == [i \in 1..Len(list) |-> list[Len(list) + 1 - i]]
\* Mutant: the lines are not reversed, so both passes drop at the start.
dropunless_no_reverse(iterable) == dropwhile_not(iterable)
\* lines 75-76
dropunless_and_reverse(iterable) == reversed(dropwhile_not(iterable))
\* lines 68-79
clean_address_4(address) ==
    dropunless_and_reverse(dropunless_and_reverse(StrippedLines(address)))

\* The length of the longest prefix of s made of chars.
RECURSIVE RunLen(_, _)
RunLen(s, chars) ==
    IF s # <<>> /\ Head(s) \in chars THEN 1 + RunLen(Tail(s), chars) ELSE 0
DigitsAndDot == {DigitChars[i] : i \in 1..Len(DigitChars)} \cup {"."}
\* re.match(r"\((\$[0-9.]+)\)", s): at the start of s a "(", then the group,
\* a "$" and the longest run of digits and dots, then a ")"; what follows the
\* ")" is not looked at.
ParenRun(s) == RunLen(SubSeq(s, 3, Len(s)), DigitsAndDot)
ParenMatches(s) ==
    /\ Len(s) >= 4
    /\ s[1] = "("
    /\ s[2] = "$"
    /\ ParenRun(s) >= 1
    /\ Len(s) >= ParenRun(s) + 3
    /\ s[ParenRun(s) + 3] = ")"
\* m.groups()[0]
ParenGroup(s) == SubSeq(s, 2, ParenRun(s) + 2)

\* str.replace(",", "")
RemoveCommas(s) == LET Kept(c) == c # "," IN SelectSeq(s, Kept)

RECURSIVE Pow10(_)
Pow10(n) == IF n = 0 THEN 1 ELSE Base * Pow10(n - 1)
\* The number a sequence of digits writes; 0 for no digit.
RECURSIVE ToNat(_)
ToNat(digits) ==
    IF digits = <<>> THEN 0
    ELSE ToNat(SubSeq(digits, 1, Len(digits) - 1)) * Base
             + DigitVal(digits[Len(digits)])

\* Decimal(text): white space around the numeral is dropped; the numeral is
\* an optional sign, then digits with at most one point and at least one
\* digit.  Anything else raises InvalidOperation (ok is FALSE).
Decimal(text) ==
    LET t == str_strip(text)
        neg == t # <<>> /\ Head(t) = "-"
        body == IF neg THEN Tail(t) ELSE t
        dots == {i \in 1..Len(body) : body[i] = "."}
        dot == IF dots = {} THEN Len(body) + 1 ELSE CHOOSE i \in dots : TRUE
    IN  IF /\ \A i \in 1..Len(body) : body[i] \in DigitsAndDot
           /\ Cardinality(dots) <= 1
           /\ \E i \in 1..Len(body) : IsDigit(body[i])
        THEN [ok |-> TRUE, neg |-> neg,
              int |-> SubSeq(body, 1, dot - 1),
              frac |-> SubSeq(body, dot + 1, Len(body))]
        ELSE [ok |-> FALSE, neg |-> FALSE, int |-> <<>>, frac |-> <<>>]

\* d.quantize(Decimal("1.00")): the coefficient with two fraction digits,
\* rounded half to even (the rounding of the default context).
Quantize(d) ==
    LET two == SubSeq(d.frac \o <<"0", "0">>, 1, 2)
        rest == SubSeq(d.frac, 3, Len(d.frac))
        floor == ToNat(d.int) * 100 + ToNat(two)
        half == 5 * Pow10(Len(rest) - 1)
        up == /\ rest # <<>>
              /\ \/ ToNat(rest) > half
                 \/ ToNat(rest) = half /\ floor % 2 = 1
    IN  IF up THEN floor + 1 ELSE floor

Raised(error) == [kind |-> "raised", type |-> error, val |-> <<>>]
Returned(type, val) == [kind |-> "value", type |-> type, val |-> val]

\* Mutant: a leading minus sign is stripped with the currency symbol.
CurrencyAndSign == {"$", "-"}
\* lstrip("$"), line 105
CurrencySymbol == {"$"}

\* lines 90-106
clean_money(dollars) ==
    LET prestripped == str_strip(dollars)
        m == ParenMatches(prestripped)
        inner == IF m THEN ParenGroup(prestripped) ELSE prestripped
        cleaned == RemoveCommas(lstrip(str_strip(inner), CurrencySymbol))
        d == Decimal(cleaned)
    IN  IF d.ok
        THEN Returned("Decimal", [neg |-> (d.neg # m), cents |-> Quantize(d)])
        ELSE Raised("InvalidOperation")

\* A value of the program with its type: the normalizers take a str.
TextValue(text) == Returned("str", text)

\* normalizer(x): clean_money calls x.strip() and the address normalizers
\* x.split("\n") first; only a str has these methods.
Normalize(f, x) ==
    IF x.type # "str" THEN Raised("AttributeError")
    ELSE CASE f = "clean_money" -> clean_money(x.val)
           [] f = "clean_address_2" ->
                 Returned("tuple", clean_address_2(x.val))
           [] f = "clean_address_4" ->
                 Returned("list", clean_address_4(x.val))

\* The texts of the inputs.  An amount text is made of eight parts: white
\* space, "(", "$", "-", the dollars, the point and the fraction, ")", white
\* space, each of which may be missing.
Blanks == {<<>>, <<" ">>}
Opens == {<<>>, <<"(">>}
Currencies == {<<>>, <<"$">>}
Minuses == {<<>>, <<"-">>}
Dollars == {<<>>, <<"0">>, <<"5">>, <<"1", "2">>, <<"1", ",", "2", "3", "4">>}
Fractions ==
    {<<>>, <<".">>, <<".", "5">>, <<".", "5", "0">>, <<".", "0", "1">>,
     <<".", "0", "0", "5">>, <<".", "0", "1", "5">>}
Closes == {<<>>, <<")">>}
AmountParts ==
    {<<pre, open, symbol, minus, int, frac, close, post>> :
        pre \in Blanks, open \in Opens, symbol \in Currencies,
        minus \in Minuses, int \in Dollars, frac \in Fractions,
        close \in Closes, post \in Blanks}
\* An address text is any text of at most MaxAddrLen of these characters.
AddressChars == {"a", "b", " ", "\n"}
AddressParts ==
    UNION {{<<text>> : text \in [1..n -> AddressChars]} : n \in 0..MaxAddrLen}

RECURSIVE Concat(_)
Concat(parts) == IF parts = <<>> THEN <<>> ELSE Head(parts) \o Concat(Tail(parts))
\* The text given to the normalizer.
ntext == Concat(nparts)

Apply(f) ==
    /\ nfun = "none"
    /\ nfun' = f
    /\ nout' = Normalize(f, TextValue(ntext))
    /\ UNCHANGED <<nparts, nagain>>
CleanMoney == Apply("clean_money")
CleanAddress2 == Apply("clean_address_2")
CleanAddress4 == Apply("clean_address_4")
\* The normalizer is given what it returned.
Again ==
    /\ nfun # "none"
    /\ nout.kind = "value"
    /\ nagain.kind = "none"
    /\ nagain' = Normalize(nfun, nout)
    /\ UNCHANGED <<nparts, nfun, nout>>

InitNorm ==
    /\ ParkSearch
    /\ ParkRetry
    /\ ParkSink
    /\ ParkJail
    /\ ParkAccount
    /\ ParkMain
    /\ nparts \in AmountParts \cup AddressParts
    /\ nfun = "none"
    /\ nout = NoValue
    /\ nagain = NoValue

\* What the normalizers leave alone.
exceptNorm ==
    <<searchVars, retryVars, sinkVars, jailVars, accountVars, mainVars>>

NextNorm ==
    \/ (CleanMoney /\ UNCHANGED exceptNorm)
    \/ (CleanAddress2 /\ UNCHANGED exceptNorm)
    \/ (CleanAddress4 /\ UNCHANGED exceptNorm)
    \/ (Again /\ UNCHANGED exceptNorm)

SpecNorm == InitNorm /\ [][NextNorm]_vars

(***************************************************************************)
(* Account scraper: run, get_account_lot_payer_owner, get_account_row and  *)
(* get_residential_building (scrape_lane_county_account.py)                *)
(*                                                                         *)
(* A dict is a sequence of <<field name, value>> pairs, as for write_csv.  *)
(* "More..." stands in a text as one character.                            *)
(***************************************************************************)
PlainLabels ==
    {"Account Number", "Tax Payer", "Map and Tax Lot #", "Acreage", "TCA",
     "Prop Class"}
MoreLabels == {"Related to Account(s)", "Located on Account"}
AddressLabels == {"Situs Address", "Mailing Address"}
Labels == PlainLabels \cup MoreLabels \cup AddressLabels

\* re.sub(r"\s+", " ", text)
RECURSIVE CollapseWhitespace(_)
CollapseWhitespace(text) ==
    IF text = <<>> THEN <<>>
    ELSE IF Head(text) \in Whitespace
    THEN <<" ">> \o CollapseWhitespace(lstrip(Tail(text), Whitespace))
    ELSE <<Head(text)>> \o CollapseWhitespace(Tail(text))
\* strip of lcapps.py, lines 67-72
strip(text) == CollapseWhitespace(str_strip(text))
\* str.removesuffix("More...")
RemoveMore(text) ==
    IF text # <<>> /\ text[Len(text)] = "More..."
    THEN SubSeq(text, 1, Len(text) - 1)
    ELSE text
\* lines 82-87
clean_more(entry) == str_strip(RemoveMore(strip(entry)))

\* cleaner(text)
Clean(cleaner, text) ==
    CASE cleaner = "strip" -> strip(text)
      [] cleaner = "clean_more" -> clean_more(text)
      [] cleaner = "clean_address_2" -> clean_address_2(text)
      [] cleaner = "clean_address_4" -> clean_address_4(text)

\* lines 109-119: the cleaned text of the row with the label; text_content()
\* of a row that is not there times out, and "" is returned.
get_account_row(label, cleaner) ==
    IF arows[label].found THEN Clean(cleaner, arows[label].text) ELSE <<>>

\* lines 122-160: the two assignments unpack what get_account_row returned
\* into two and four names, ValueError when it has another length; then the
\* dict is made.
get_account_lot_payer_owner ==
    LET situs == get_account_row("Situs Address", "clean_address_2")
        mailing == get_account_row("Mailing Address", "clean_address_4")
    IN  IF Len(situs) # 2 THEN Raised("ValueError")
        ELSE IF Len(mailing) # 4 THEN Raised("ValueError")
        ELSE Returned("dict",
            << <<"account_number", get_account_row("Account Number", "strip")>>,
               <<"related_to_accounts",
                 get_account_row("Related to Account(s)", "clean_more")>>,
               <<"located_on_account",
                 get_account_row("Located on Account", "clean_more")>>,
               <<"tax_payer", get_account_row("Tax Payer", "strip")>>,
               <<"situs_address", situs[1]>>,
               <<"situs_city_state_zip", situs[2]>>,
               <<"mailing_address_1", mailing[1]>>,
               <<"mailing_address_2", mailing[2]>>,
               <<"mailing_address_3", mailing[3]>>,
               <<"mailing_city_state_zip", mailing[4]>>,
               <<"map_and_tax_lot_number",
                 get_account_row("Map and Tax Lot #", "strip")>>,
               <<"acreage", get_account_row("Acreage", "strip")>>,
               <<"tca", get_account_row("TCA", "strip")>>,
               <<"prop_class", get_account_row("Prop Class", "strip")>> >>)

\* How the lookup of a layout ends: found; AssertionError, when expect(...)
\* .to_be_visible() fails on its heading; TimeoutError, when the heading is
\* there and text_content() of one of its cells times out.
Lookups == {"found", "AssertionError", "TimeoutError"}
\* The dicts of lines 339-363 and 379-403 (of the twenty-one fields, the
\* taxlot and those that tell the two layouts apart).
ConventionalBuilding ==
    << <<"taxlot", "t">>, <<"year_built", "y">>, <<"manufactured", "false">>,
       <<"manufactured_make", "N/A">> >>
ManufacturedBuilding ==
    << <<"taxlot", "t">>, <<"year_built", "N/A">>, <<"manufactured", "true">>,
       <<"manufactured_make", "m">> >>

\* line 364: except (AssertionError, PlaywrightTimeoutError)
FirstLookupCatches(error) == error \in {"AssertionError", "TimeoutError"}
\* line 404: except AssertionError
SecondLookupCatches(error) == error = "AssertionError"

\* lines 303-406: what get_residential_building returns or raises, and what
\* it logs at warning level and above.
get_residential_building ==
    IF bpage.res = "None"
    THEN [out |-> Returned("dict", <<>>), log |-> <<>>]
    ELSE IF bpage.conventional = "found"
    THEN [out |-> Returned("dict", ConventionalBuilding), log |-> <<>>]
    ELSE IF ~FirstLookupCatches(bpage.conventional)
    THEN [out |-> Raised(bpage.conventional), log |-> <<>>]
    ELSE IF bpage.manufactured = "found"
    THEN [out |-> Returned("dict", ManufacturedBuilding),
          log |-> <<"warning: residential not found",
                    "warning: manufactured building">>]
    ELSE IF SecondLookupCatches(bpage.manufactured)
    THEN [out |-> Returned("dict", <<>>),
          log |-> <<"warning: residential not found",
                    "error: unknown residential building">>]
    ELSE [out |-> Raised(bpage.manufactured),
          log |-> <<"warning: residential not found",
                    "warning: manufactured building">>]

\* The wrapper of retry around run, lines 31-53: the exception of an attempt
\* is counted; past times_to_retry it is raised to main, else run is called
\* again after the sleep.
RunRaises ==
    /\ atries' = atries + 1
    /\ apc' = IF LimitExceeded(atries + 1, DefaultTimesToRetry)
              THEN "raised" ELSE "account"

\* run, line 632: get_account_lot_payer_owner(page, account)
AccountInfo ==
    /\ apc = "account"
    /\ ainfo' = get_account_lot_payer_owner
    /\ IF get_account_lot_payer_owner.kind = "value"
       THEN apc' = "building" /\ UNCHANGED atries
       ELSE RunRaises
    /\ UNCHANGED <<arows, bpage, binfo, alog>>

\* run, lines 633-645: the receipts and the assessments are read, then
\* get_taxlot_page calls get_residential_building (line 598) and run returns
\* its dict.
AccountBuilding ==
    /\ apc = "building"
    /\ binfo' = get_residential_building.out
    /\ alog' = alog \o get_residential_building.log
    /\ IF get_residential_building.out.kind = "value"
       THEN apc' = "done" /\ UNCHANGED atries
       ELSE RunRaises
    /\ UNCHANGED <<arows, bpage, ainfo>>

\* The texts of the rows of the table.
PlainText == <<" ", "v", " ", " ", "w">>
MoreText == <<"v", " ", "More...">>
SitusTexts ==
    {<<"a", "\n", "b">>, <<"a", "\n", " ", "\n", "b", "\n">>, <<"a">>}
MailingTexts ==
    {<<"a", "\n", "b", "\n", "a", "\n", "b">>,
     <<"\n", "a", "\n", "\n", "\n", "b">>,
     <<"a", "\n", "b">>}
AbsentSets == {S \in SUBSET Labels : Cardinality(S) <= MaxAbsent}
RowText(label, situs, mailing) ==
    CASE label \in PlainLabels -> PlainText
      [] label \in MoreLabels -> MoreText
      [] label = "Situs Address" -> situs
      [] label = "Mailing Address" -> mailing

\* The page of the account: some rows of the table may be missing; the
\* taxlot page lists a residential building or none.
InitAccount ==
    /\ ParkSearch
    /\ ParkRetry
    /\ ParkSink
    /\ ParkJail
    /\ ParkNorm
    /\ ParkMain
    /\ \E absent \in AbsentSets, situs \in SitusTexts, mailing \in MailingTexts :
          arows = [label \in Labels |->
                      IF label \in absent
                      THEN [found |-> FALSE, text |-> <<>>]
                      ELSE [found |-> TRUE,
                            text |-> RowText(label, situs, mailing)]]
    /\ bpage \in [res : {"None", "listed"}, conventional : Lookups,
                  manufactured : Lookups]
    /\ apc = "account"
    /\ atries = 0
    /\ ainfo = NoValue
    /\ binfo = NoValue
    /\ alog = <<>>

\* What run of the account scraper leaves alone.
exceptAccount ==
    <<searchVars, retryVars, sinkVars, jailVars, normVars, mainVars>>

NextAccount ==
    \/ (AccountInfo /\ UNCHANGED exceptAccount)
    \/ (AccountBuilding /\ UNCHANGED exceptAccount)

SpecAccount == InitAccount /\ [][NextAccount]_vars

(***************************************************************************)
(* The entry points: main of scrape_lane_county_account.py, of             *)
(* scrape_lane_county_property.py and of scrape_lane_county_jail_viewer.py *)
(*                                                                         *)
(* The account and the property scraper loop over their roots; what run    *)
(* gives for a root is any of its outcomes.  The jail viewer has no roots: *)
(* its main is the run of the pagination above, followed by JailWrite.     *)
(***************************************************************************)
MainRoots == {"r1", "r2"}
RootLists == UNION {[1..n -> MainRoots] : n \in 0..MaxRoots}

\* What run returns: the account scraper a dict of lists of dicts (of its
\* seven keys, three), the property scraper a list of dicts.
AccountResults ==
    {<< <<"account_lot_payer_owner", <<RecA>> >>,
        <<"receipts", receipts>>,
        <<"residential_buildings", <<building>> >> >> :
        receipts \in {<<>>, <<RecB>>}, building \in {Fieldless, RecC}}
PropertyResults == {<<>>, <<RecA>>, <<RecA, RecB>>}
RunOutcomes ==
    {Raised("TimeoutError")}
        \cup {Returned("dict", returned) : returned \in AccountResults}
        \cup {Returned("list", results) : results \in PropertyResults}
ReturnType == [account |-> "dict", property |-> "list"]

\* The calls of write_csv main makes with what run returned.
\* account, lines 716-719: if result, one call for each key, to "<key>.csv";
\* property, lines 203-204: one call to args.output if there are results.
WriteCalls(returned) ==
    CASE prog = "account" ->
            IF returned = <<>> THEN <<>>
            ELSE [i \in 1..Len(returned) |->
                     <<returned[i][1], returned[i][2]>>]
      [] prog = "property" ->
            IF Len(returned) >= 1 THEN << <<"args.output", returned>> >>
            ELSE <<>>

\* One pass of the loop with args.dry_run set: the root is printed.
MainPrint ==
    /\ mpc = "loop"
    /\ midx <= Len(mroots)
    /\ dry_run
    /\ printed' = Append(printed, mroots[midx])
    /\ midx' = midx + 1
    /\ UNCHANGED <<prog, dry_run, mroots, mpc, mruns, mwrites>>

\* One pass of the loop without args.dry_run: run is called for the root;
\* its exception ends main, its result is written.
MainRun ==
    /\ mpc = "loop"
    /\ midx <= Len(mroots)
    /\ ~dry_run
    /\ mruns' = Append(mruns, mroots[midx])
    /\ \E outcome \in RunOutcomes :
          /\ outcome.kind = "value" => outcome.type = ReturnType[prog]
          /\ IF outcome.kind = "raised"
             THEN /\ mpc' = "raised"
                  /\ UNCHANGED <<midx, mwrites>>
             ELSE /\ mwrites' = mwrites \o WriteCalls(outcome.val)
                  /\ midx' = midx + 1
                  /\ UNCHANGED mpc
    /\ UNCHANGED <<prog, dry_run, mroots, printed>>

\* The loop is over.
MainEnd ==
    /\ mpc = "loop"
    /\ midx > Len(mroots)
    /\ mpc' = "done"
    /\ UNCHANGED <<prog, dry_run, mroots, midx, printed, mruns, mwrites>>

\* The command line: the script, its roots and -d/--dry-run.
InitMainLoop ==
    /\ ParkSearch
    /\ ParkRetry
    /\ ParkSink
    /\ ParkJail
    /\ ParkNorm
    /\ ParkAccount
    /\ prog \in {"account", "property"}
    /\ dry_run \in BOOLEAN
    /\ mroots \in RootLists
    /\ midx = 1
    /\ mpc = "loop"
    /\ printed = <<>>
    /\ mruns = <<>>
    /\ mwrites = <<>>
\* The jail viewer takes -d/--dry-run from get_parser as the others do.
InitMainJail ==
    /\ InitJailRun
    /\ ParkNorm
    /\ ParkAccount
    /\ prog = "jail_viewer"
    /\ dry_run \in BOOLEAN
    /\ mroots = <<>>
    /\ midx = 0
    /\ mpc = "parked"
    /\ printed = <<>>
    /\ mruns = <<>>
    /\ mwrites = <<>>
InitMain == InitMainLoop \/ InitMainJail

\* What the loops of main leave alone.
exceptMain ==
    <<searchVars, retryVars, sinkVars, jailVars, normVars, accountVars>>

NextMain ==
    \/ (MainPrint /\ UNCHANGED exceptMain)
    \/ (MainRun /\ UNCHANGED exceptMain)
    \/ (MainEnd /\ UNCHANGED exceptMain)
    \/ NextJail

SpecMain == InitMain /\ [][NextMain]_vars

(***************************************************************************)
(* Property scraper: main (scrape_lane_county_property.py), the loop over  *)
(* the roots with search and write_csv as they are modelled above          *)
(***************************************************************************)
\* The lists of search prefixes main resolves (sections.cities[city] or the
\* lines of the file read), in the order of the loop.
PropertySearches == {<<1, 10, 2>>, <<2, 0>>}

\* The dict parse_row returned, as write_csv takes it (of its fields the two
\* the model holds).
AsDict(r) ==
    << <<"account", r.account>>, <<"map_and_tax_lot", r.map_and_tax_lot>> >>

\* Mutant: main logs the exception of run and goes on with the next root.
MainCatchesRun == TRUE
\* main, lines 198-211: the call of run is in no try statement.
MainCatches == FALSE

\* main, lines 198-202: the next pass of the loop calls run for the root;
\* run, lines 117-130, calls search(page, prefix).
PropertyRun ==
    /\ mpc = "loop"
    /\ midx <= Len(mroots)
    /\ ~dry_run
    /\ mpc' = "run"
    /\ mruns' = Append(mruns, mroots[midx])
    /\ root' = mroots[midx]
    /\ stack' = <<Frame(mroots[midx])>>
    /\ result' = NoResult
    /\ UNCHANGED <<store, queries, lastCall, prog, dry_run, mroots, midx,
                   printed, mwrites, sinkVars>>

\* main, lines 202-211: run returned its list; it is written when it is not
\* empty, and the loop goes on.
PropertyWrite ==
    /\ mpc = "run"
    /\ stack = <<>>
    /\ result.kind = "ok"
    /\ LET results == [i \in 1..Len(result.rows) |-> AsDict(result.rows[i])]
       IN  IF Len(results) >= 1
           THEN /\ wlog' = Append(wlog, results)
                /\ dirs' = Makedirs(results)
                /\ file' = Written(file, results)
                /\ mwrites' = Append(mwrites, <<"args.output", results>>)
           ELSE UNCHANGED <<wlog, dirs, file, mwrites>>
    /\ midx' = midx + 1
    /\ mpc' = "loop"
    /\ UNCHANGED <<searchVars, dest, file0, prog, dry_run, mroots, printed,
                   mruns>>

\* main, line 202: run raised; the exception leaves the loop and main.
PropertyRaised ==
    /\ mpc = "run"
    /\ stack = <<>>
    /\ result.kind = "error"
    /\ IF MainCatches
       THEN mpc' = "loop" /\ midx' = midx + 1
       ELSE mpc' = "raised" /\ UNCHANGED midx
    /\ UNCHANGED <<searchVars, sinkVars, prog, dry_run, mroots, printed, mruns,
                   mwrites>>

\* The command line of the property scraper without -d, the query surface and
\* the output file, which may hold the lines of an earlier run.
InitProperty ==
    /\ ParkRetry
    /\ ParkJail
    /\ ParkNorm
    /\ ParkAccount
    /\ store \in Stores
    /\ root = 0
    /\ stack = <<>>
    /\ result = NoResult
    /\ queries = <<>>
    /\ lastCall = NoCall
    /\ dest = ""
    /\ dirs = {}
    /\ file \in {NoFile, OldFile}
    /\ file0 = file
    /\ wlog = <<>>
    /\ prog = "property"
    /\ dry_run = FALSE
    /\ mroots \in PropertySearches
    /\ midx = 1
    /\ mpc = "loop"
    /\ printed = <<>>
    /\ mruns = <<>>
    /\ mwrites = <<>>

\* What the loop of main leaves alone when search does not run.
exceptProperty == <<retryVars, jailVars, normVars, accountVars>>

NextProperty ==
    \/ (PropertyRun /\ UNCHANGED exceptProperty)
    \/ (PropertyWrite /\ UNCHANGED exceptProperty)
    \/ (PropertyRaised /\ UNCHANGED exceptProperty)
    \/ (MainEnd /\ UNCHANGED exceptMain)
    \/ NextSearch

SpecProperty == InitProperty /\ [][NextProperty]_vars

(***************************************************************************)
(* Claims about search                                                     *)
(***************************************************************************)
\* The stored records whose key starts with the root's query text.
MatchesRoot(i) == StartsWith(store[i], Str(root))
\* How often record i occurs in the rows search returned.
Occurrences(i) == Cardinality({j \in 1..Len(result.rows) :
                                  result.rows[j].account = i})

\* C1: a call of search(root) that returns holds every stored record whose key
\* starts with the root exactly once, and no other record.
C1_CompleteNoDuplicates ==
    result.kind = "ok" =>
        \A i \in 1..Len(store) :
            Occurrences(i) = (IF MatchesRoot(i) THEN 1 ELSE 0)

\* The pager reported a total below the cap (zero included).
BelowCap(items) == items.kind \in {"none", "of"} /\ items.n < Cap

\* C2: an activation of search whose reported total T is below the cap returns
\* exactly T records; when the rows read differ from T it raises and returns
\* no record.
C2_LeafReturnsExactlyTotal ==
    (lastCall.outcome # "none" /\ BelowCap(lastCall.report)) =>
        /\ lastCall.outcome = "returned" => Len(lastCall.rows) = lastCall.report.n
        /\ (lastCall.nread # -1 /\ lastCall.nread # lastCall.report.n) =>
               (lastCall.outcome = "raised" /\ lastCall.rows = <<>>)
        /\ (lastCall.outcome = "raised" /\ stack = <<>>) => result.rows = <<>>

\* C2 witness: a leaf with a positive total below the cap has returned its rows.
C2_Witness ==
    /\ lastCall.outcome = "returned"
    /\ BelowCap(lastCall.report)
    /\ lastCall.report.n >= 1
    /\ lastCall.nread = lastCall.report.n
    /\ Len(lastCall.rows) = lastCall.report.n

\* C3: an activation whose reported total is at or above the cap reads no rows
\* itself, and the query of its child for digit s is its own query text
\* extended by s (enumerate(prefix + s)).
C3_ChildrenExtendPrefix ==
    /\ \A i \in 1..(Len(stack) - 1) :
          Str(stack[i + 1].prefix) = Str(stack[i].prefix) \o <<stack[i].n>>
    /\ (lastCall.outcome # "none" /\ IsAtCap(lastCall.report)) =>
          lastCall.nread = -1

\* The domain's maximum prefix length: one digit beyond the longest key.
MaxPrefixLen == MaxKeyLen + 1

\* C4: the recursion depth of search never exceeds the maximum prefix length.
C4_DepthBounded == Len(stack) <= MaxPrefixLen

(***************************************************************************)
(* Claims about retry                                                      *)
(***************************************************************************)
DefaultLimit == times_to_retry = DefaultTimesToRetry
\* The operation failed on attempts 1-4 and succeeded on attempt 5.
FifthAttemptSucceeded ==
    /\ rpc = "returned"
    /\ Len(calls) = 5
    /\ Len(errs) = 4

\* C5 as stated: success on attempt 5 comes after exactly 3 sleeps of 1, 8, 27.
C5_ThreeSleeps ==
    (DefaultLimit /\ FifthAttemptSucceeded) =>
        (rout.kind = "value" /\ sleeps = <<1, 8, 27>>)

\* C5 amended: with the default limit, an operation that fails on attempts 1-4
\* and succeeds on attempt 5 returns the success value after exactly 4 sleeps,
\* of 1, 8, 27 and 64 seconds.
C5_FourSleeps ==
    (DefaultLimit /\ FifthAttemptSucceeded) =>
        (rout.kind = "value" /\ rout.val \in Values /\ sleeps = <<1, 8, 27, 64>>)

C5_Witness == DefaultLimit /\ FifthAttemptSucceeded /\ rout.kind = "value"

\* C6 as stated: an operation that always fails is attempted 5 times and the
\* retrier raises after attempt 5, having slept 4 times.
C6_FiveAttempts ==
    (DefaultLimit /\ rpc = "raised") => (Len(calls) = 5 /\ Len(sleeps) = 4)

\* C6 amended: with the default limit, an operation that always fails is
\* attempted 6 times; the retrier sleeps 1, 8, 27, 64 and 125 seconds after
\* attempts 1-5 and raises after attempt 6 without a 6th sleep.
C6_SixAttempts ==
    (DefaultLimit /\ rpc = "raised") =>
        /\ Len(calls) = 6
        /\ Len(errs) = 6
        /\ sleeps = <<1, 8, 27, 64, 125>>
        /\ rlog[Len(rlog)] = [ev |-> "fail", k |-> 6]

C6_Witness == DefaultLimit /\ rpc = "raised" /\ rout.kind = "error"

Cubes == <<1, 8, 27, 64, 125>>
\* Attempts started and not yet finished, after the first i steps of the log.
InFlight(i) ==
    Cardinality({j \in 1..i : rlog[j].ev = "start"})
        - Cardinality({j \in 1..i : rlog[j].ev \in {"ok", "fail"}})

\* C7: the sleep after the k-th failed attempt lasts k cubed seconds and lies
\* between that failure and the start of attempt k+1; the sleeps are a prefix
\* of 1, 8, 27, 64, 125; at most one attempt is in progress and none during a
\* sleep.
C7_CubedSleepsInSequence ==
    /\ Len(sleeps) <= Len(Cubes)
    /\ \A k \in 1..Len(sleeps) : sleeps[k] = Cubes[k]
    /\ \A i \in 1..Len(rlog) :
          /\ InFlight(i) \in {0, 1}
          /\ rlog[i].ev = "sleep" =>
                /\ i > 1
                /\ rlog[i - 1].ev = "fail"
                /\ rlog[i].k = Cubes[rlog[i - 1].k]
                /\ InFlight(i) = 0
          /\ rlog[i].ev = "wake" => (rlog[i - 1].ev = "sleep" /\ InFlight(i) = 0)
          /\ (rlog[i].ev = "start" /\ i > 1) =>
                /\ rlog[i - 1].ev = "wake"
                /\ rlog[i - 2].ev = "sleep"
                /\ rlog[i - 3] = [ev |-> "fail", k |-> rlog[i].k - 1]
                /\ InFlight(i - 1) = 0

\* C7 witness: the sixth attempt runs after five sleeps.
C7_Witness == rpc = "running" /\ Len(sleeps) = 5 /\ Len(calls) = 6

\* C8: when the limit is exceeded the caller gets the exception of the last
\* attempt, and no sleep follows that attempt.
C8_LastFailurePropagates ==
    rpc = "raised" =>
        /\ rout.kind = "error"
        /\ rout.err = errs[Len(errs)]
        /\ rout.err[1] = Len(calls)
        /\ rlog[Len(rlog)].ev = "fail"
        /\ Len(sleeps) = Len(calls) - 1

\* C8 witness: the first and the last attempt failed differently.
C8_Witness ==
    /\ rpc = "raised"
    /\ Len(errs) >= 2
    /\ errs[1][2] # errs[Len(errs)][2]
    /\ rout.err[2] = errs[Len(errs)][2]

\* C22: the retrier invokes the wrapped operation at most times_to_retry + 1
\* times per call; when every attempt has failed and the call has raised, it
\* has invoked it exactly times_to_retry + 1 times and slept times_to_retry
\* times; each attempt received the arguments of the call unchanged.
C22_AttemptsBounded ==
    /\ Len(calls) <= times_to_retry + 1
    /\ \A i \in 1..Len(calls) : calls[i] = rargs
    /\ rpc = "raised" =>
          /\ Len(errs) = Len(calls)
          /\ Len(calls) = times_to_retry + 1
          /\ Len(sleeps) = times_to_retry

\* C22 witness: with a limit of two retries every attempt failed: three
\* attempts with the same arguments and two sleeps.
C22_Witness ==
    /\ times_to_retry = 2
    /\ rpc = "raised"
    /\ calls = <<rargs, rargs, rargs>>
    /\ Len(sleeps) = 2

(***************************************************************************)
(* Claims about write_csv                                                  *)
(***************************************************************************)
\* The value of field name in a record that has it.
ValueOf(rec, name) == rec[CHOOSE i \in 1..Len(rec) : rec[i][1] = name][2]
\* The line a record is expected to give under a header.
ExpectedLine(rec, header) == [i \in 1..Len(header) |-> ValueOf(rec, header[i])]
\* The lines of the records of batches k..Len(wlog), in order.
RECURSIVE ExpectedLines(_, _)
ExpectedLines(k, header) ==
    IF k > Len(wlog) THEN <<>>
    ELSE [j \in 1..Len(wlog[k]) |-> ExpectedLine(wlog[k][j], header)]
             \o ExpectedLines(k + 1, header)

\* The destination was fresh, and every call so far passed a non-empty batch
\* of records that have the fields of the first record of the first batch, in
\* the same insertion order.
SameShapedBatchesToFresh ==
    /\ file0.lines = <<>>
    /\ Len(wlog) >= 2
    /\ \A k \in 1..Len(wlog) : wlog[k] # <<>>
    /\ wlog[1] # <<>> => FieldNames(wlog[1][1]) # <<>>
    /\ \A k \in 1..Len(wlog) : \A j \in 1..Len(wlog[k]) :
          FieldNames(wlog[k][j]) = FieldNames(wlog[1][1])

\* C10: after writing non-empty batches A, then B, of same-shaped records
\* (records that have fields) to a fresh destination, the file holds one
\* header line, the field names of A's first record in insertion order, then
\* A's rows in order, then B's rows in order, and no second header.
C10_HeaderOnceThenRowsInOrder ==
    SameShapedBatchesToFresh =>
        /\ file.exists
        /\ file.lines = <<FieldNames(wlog[1][1])>>
                            \o ExpectedLines(1, FieldNames(wlog[1][1]))
        /\ \A i \in 2..Len(file.lines) :
              file.lines[i] # FieldNames(wlog[1][1])

\* C10 witness: two different batches have been written to a fresh
\* destination.
C10_Witness ==
    /\ SameShapedBatchesToFresh
    /\ Len(wlog) = 2
    /\ wlog[1] = <<RecA, RecB>>
    /\ wlog[2] = <<RecB>>
    /\ Len(file.lines) = 4

\* A sequence is a prefix of another.
IsPrefix(s, t) == Len(s) <= Len(t) /\ \A i \in 1..Len(s) : s[i] = t[i]

\* C11: the sink is append-only: in every step the content of the destination
\* before the call is a prefix of its content after the call, and a file that
\* exists keeps existing; no call truncates, reorders or rewrites lines.
C11_AppendOnly ==
    [][/\ file.exists => file'.exists
       /\ IsPrefix(file.lines, file'.lines)]_vars

\* C11 witness: two calls have added one and two lines to a file that held
\* lines before the first of them.
C11_Witness ==
    /\ file0 = OldFile
    /\ Len(wlog) = 2
    /\ wlog[1] = <<RecA>>
    /\ wlog[2] = <<RecC, RecA>>
    /\ Len(file.lines) = Len(file0.lines) + 3

\* C12: write_csv with an empty batch is a no-op: the destination file and
\* the destination directory are after the call what they were before it;
\* neither is created and no header is written.
C12_EmptyBatchNoOp ==
    [][(wlog' # wlog /\ wlog'[Len(wlog')] = <<>>)
           => (file' = file /\ dirs' = dirs)]_vars

\* C12 witness: an empty batch was passed for a destination whose directory
\* and file do not exist, and neither exists after the call.
C12_Witness ==
    /\ wlog = << <<>> >>
    /\ dest = "out"
    /\ dirs = {}
    /\ ~file.exists

\* The cells of a record under a column set: its value for every column it
\* has, the empty text for a column it lacks.
CellsUnder(rec, columns) ==
    [i \in 1..Len(columns) |->
        IF columns[i] \in NameSet(rec) THEN ValueOf(rec, columns[i]) ELSE ""]
\* The records of a batch before the first one that has a field outside the
\* column set.
RECURSIVE Fitting(_, _)
Fitting(rows, columns) ==
    IF rows = <<>> THEN 0
    ELSE IF \E i \in 1..Len(Head(rows)) :
                \A k \in 1..Len(columns) : Head(rows)[i][1] # columns[k]
    THEN 0
    ELSE 1 + Fitting(Tail(rows), columns)

\* C24: write_csv decides from the first record of the batch alone.  A call
\* whose first record has no fields leaves the file and the directories as
\* they were, whatever the later records hold.  A call whose first record has
\* fields leaves a file that holds the old lines, then the first record's
\* field names as a header only when the file held no line (never because the
\* file's own header differs), then the records in order, each laid out under
\* the first record's field names; every record is there unless one of them
\* has a field outside these names, which ends the call at that record.
C24_FirstRecordDecides ==
    [][(wlog' # wlog /\ wlog'[Len(wlog')] # <<>>) =>
          LET rows == wlog'[Len(wlog')]
              columns == FieldNames(rows[1])
              header == IF file.lines = <<>> THEN <<columns>> ELSE <<>>
              n == Fitting(rows, columns)
          IN  IF columns = <<>>
              THEN file' = file /\ dirs' = dirs
              ELSE /\ file'.exists
                   /\ file'.lines =
                         file.lines \o header
                             \o [j \in 1..n |-> CellsUnder(rows[j], columns)]
                   /\ dest # "" => dest \in dirs']_vars

\* C24 witness: a batch that starts with a fieldless record and goes on with
\* a record that has fields left a file with its own header untouched; the
\* next batch was then appended under its first record's two field names, not
\* under the file's one-column header.
C24_Witness ==
    /\ file0 = OldFile
    /\ wlog = << <<Fieldless, RecA>>, <<RecB, Fieldless>> >>
    /\ file.lines = OldFile.lines \o << <<"2", "y">>, <<"", "">> >>

RECURSIVE RowsOfPages(_)
RowsOfPages(p) ==
    IF p > Len(pageRows) THEN <<>>
    ELSE [r \in 1..pageRows[p] |-> <<p, r>>] \o RowsOfPages(p + 1)

\* Submit once, then for every page in order: take its rows, and click ">"
\* on every page but the last.
RECURSIVE PagesInOrder(_)
PagesInOrder(p) ==
    IF p > Len(pageRows) THEN <<>>
    ELSE << <<"rows", p>> >>
             \o (IF p < Len(pageRows) THEN << <<"next", p>> >> ELSE <<>>)
             \o PagesInOrder(p + 1)

\* C13: when run has taken the pagination strategy (get_paginated) and has
\* returned, the query was submitted once, the rows of every result page
\* were extracted exactly once, in page order, the next-page link was
\* followed on every page that shows one and on no other, and the list
\* returned is the concatenation of the pages' rows in that order.
C13_PagesOnceInOrder ==
    (paginated /\ jpc \in {"done", "written"}) =>
        /\ jops = << <<"submit", 0>> >> \o PagesInOrder(1)
        /\ jout.rows = RowsOfPages(1)

\* C13 witness: get_paginated has gone through two pages that both hold rows
\* and run has returned.
C13_Witness ==
    /\ paginated
    /\ jpc = "done"
    /\ Len(pageRows) = 2
    /\ pageRows[1] = PageSize
    /\ pageRows[2] >= 1
    /\ Len(jout.rows) = PageSize + pageRows[2]

\* The id of the i-th booking run collected.
IdOf(i) == BookingIds[jresults[i][1]][jresults[i][2]]
\* A file that holds a header and one line for each booking collected, in
\* order; no file when nothing was collected.
HoldsBookings(f, header, third) ==
    IF jresults = <<>> THEN f = NoFile
    ELSE /\ f.exists
         /\ f.lines = <<header>>
                \o [i \in 1..Len(jresults) |-> <<IdOf(i), IdOf(i), third>>]

\* C14: a reported total that differs from the number of rows extracted is
\* not fatal: run raises nothing for it, logs the discrepancy and returns
\* every record it extracted, and main then writes those records to the
\* sink.
C14_MismatchNonFatal ==
    /\ ~(jout.kind = "error" /\ jout.step = "count")
    /\ (jpc \in {"done", "written"} /\ n_candidates # Len(jresults)) =>
          /\ jout.kind = "ok-logged-mismatch"
          /\ jout.rows = jresults
    /\ (jpc = "written" /\ n_candidates # Len(jresults)) =>
          /\ HoldsBookings(jfiles["bookings.csv"],
                           <<"booking_number", "inmate_id", "first_name">>,
                           "n")
          /\ HoldsBookings(jfiles["custody.csv"],
                           <<"booking_number", "inmate_id",
                             "in_custody_as_of">>, "t")

\* C14 witness: the pagination strategy collected fewer bookings than the
\* total reported, and main has written them.
C14_Witness ==
    /\ paginated
    /\ jpc = "written"
    /\ Len(jresults) >= PageSize + 1
    /\ n_candidates = Len(jresults) + 1
    /\ Len(jfiles["bookings.csv"].lines) = Len(jresults) + 1

(***************************************************************************)
(* Claims about the normalizers                                            *)
(***************************************************************************)
\* The dollars and the cents that the parts of an amount text write.
DollarsOf(int) ==
    CASE int = <<"0">> -> 0
      [] int = <<"5">> -> 5
      [] int = <<"1", "2">> -> 12
      [] int = <<"1", ",", "2", "3", "4">> -> 1234
CentsOf(frac) ==
    CASE frac = <<>> -> 0
      [] frac = <<".", "5", "0">> -> 50
      [] frac = <<".", "0", "1">> -> 1
\* A well-formed amount text: dollars, with or without thousands separators,
\* with two fraction digits or none, with or without a currency symbol,
\* enclosed in parentheses or not, with or without white space around it.
WellFormedAmount ==
    /\ Len(nparts) = 8
    /\ nparts[4] = <<>>
    /\ nparts[5] # <<>>
    /\ nparts[6] \in {<<>>, <<".", "5", "0">>, <<".", "0", "1">>}
    /\ (nparts[2] = <<>>) <=> (nparts[7] = <<>>)

\* C17: for every well-formed amount text the money normalizer returns the
\* amount with exactly two fraction digits, negative exactly when the text
\* encloses the amount in parentheses ("$1,234.50" gives 1234.50,
\* "($12.01)" gives -12.01, "($1,234.50)" gives -1234.50).
C17_MoneyOfWellFormedText ==
    (nfun = "clean_money" /\ WellFormedAmount) =>
        nout = Returned("Decimal",
                        [neg |-> nparts[2] # <<>>,
                         cents |-> DollarsOf(nparts[5]) * 100
                                       + CentsOf(nparts[6])])

\* The stripped lines of the text and the places of those that are not
\* blank.
Lines == StrippedLines(ntext)
NonBlank == {i \in 1..Len(Lines) : Lines[i] # <<>>}
\* The k-th place that is not blank.
Place(k) ==
    CHOOSE i \in NonBlank : Cardinality({j \in NonBlank : j < i}) = k - 1
\* The lines from the first to the last that is not blank.
FromFirstToLast ==
    IF NonBlank = {} THEN <<>>
    ELSE SubSeq(Lines,
                CHOOSE i \in NonBlank : \A j \in NonBlank : i <= j,
                CHOOSE i \in NonBlank : \A j \in NonBlank : j <= i)
Trimmed(line) ==
    line # <<>> => (Head(line) \notin Whitespace
                       /\ line[Len(line)] \notin Whitespace)

\* C18: clean_address_4 splits on line breaks, trims each line, drops only
\* the leading and the trailing blank lines and returns the others in their
\* order, an interior blank line as an empty entry; clean_address_2 returns
\* the same lines without the blank ones.
C18_AddressLines ==
    /\ nfun = "clean_address_4" =>
          /\ nout.val = FromFirstToLast
          /\ \A i \in 1..Len(nout.val) : Trimmed(nout.val[i])
    /\ nfun = "clean_address_2" =>
          /\ Len(nout.val) = Cardinality(NonBlank)
          /\ \A k \in 1..Len(nout.val) : nout.val[k] = Lines[Place(k)]

\* C18 witness: clean_address_4 was given lines with an interior and a
\* trailing blank line, and kept the interior one only.
C18_Witness ==
    /\ nfun = "clean_address_4"
    /\ Len(Lines) = 4
    /\ Lines[4] = <<>>
    /\ nout.val = << <<"a">>, <<>>, <<"b">> >>

\* str(Decimal) of a value with two fraction digits.
RECURSIVE NatText(_)
NatText(n) ==
    IF n < Base THEN <<DigitChars[n + 1]>>
    ELSE NatText(n \div Base) \o <<DigitChars[(n % Base) + 1]>>
DecimalText(v) ==
    (IF v.neg THEN <<"-">> ELSE <<>>)
        \o NatText(v.cents \div 100) \o <<".">>
        \o <<DigitChars[((v.cents \div 10) % 10) + 1],
             DigitChars[(v.cents % 10) + 1]>>
\* Lines as one text, a line break between them.
RECURSIVE JoinLines(_)
JoinLines(lines) ==
    IF lines = <<>> THEN <<>>
    ELSE IF Len(lines) = 1 THEN lines[1]
    ELSE Head(lines) \o <<"\n">> \o JoinLines(Tail(lines))
\* What a normalizer returned, as text.
TextOf(out) ==
    IF out.type = "Decimal" THEN DecimalText(out.val) ELSE JoinLines(out.val)

\* C19 as stated: a normalizer applied to its own output gives the same
\* result as applying it once, for every input it accepts.
C19_SameOnOwnOutput == nagain.kind # "none" => nagain = nout

\* C19 amended: a normalizer applied to the text of its own output (str() of
\* the Decimal, the lines joined by line breaks) gives the same result as
\* applying it once, for every input it accepts.
C19_SameOnTextOfOutput ==
    nout.kind = "value" =>
        Normalize(nfun, TextValue(TextOf(nout))) = nout

\* C19 witness: clean_money returned a negative amount for a text in
\* parentheses and was applied again.
C19_Witness ==
    /\ nfun = "clean_money"
    /\ nout.kind = "value"
    /\ nout.val = [neg |-> TRUE, cents |-> 1201]
    /\ nagain.kind # "none"

(***************************************************************************)
(* Claims about the extraction of an account                               *)
(***************************************************************************)
\* The value of a field of a dict.
Field(dict, name) ==
    dict[CHOOSE i \in 1..Len(dict) : dict[i][1] = name][2]
\* The fields of the record that come from the row with a label.
FieldsOf(label) ==
    CASE label = "Account Number" -> {"account_number"}
      [] label = "Related to Account(s)" -> {"related_to_accounts"}
      [] label = "Located on Account" -> {"located_on_account"}
      [] label = "Tax Payer" -> {"tax_payer"}
      [] label = "Situs Address" -> {"situs_address", "situs_city_state_zip"}
      [] label = "Mailing Address" ->
            {"mailing_address_1", "mailing_address_2", "mailing_address_3",
             "mailing_city_state_zip"}
      [] label = "Map and Tax Lot #" -> {"map_and_tax_lot_number"}
      [] label = "Acreage" -> {"acreage"}
      [] label = "TCA" -> {"tca"}
      [] label = "Prop Class" -> {"prop_class"}
\* The address rows that are there have two and four lines.
AddressRowsWellFormed ==
    /\ arows["Situs Address"].found =>
          arows["Situs Address"].text \in {<<"a", "\n", "b">>,
                                           <<"a", "\n", " ", "\n", "b", "\n">>}
    /\ arows["Mailing Address"].found =>
          arows["Mailing Address"].text
              \in {<<"a", "\n", "b", "\n", "a", "\n", "b">>,
                   <<"\n", "a", "\n", "\n", "\n", "b">>}

\* C15: when the row of a field of the account record is absent, the Situs
\* Address and the Mailing Address rows included, the extraction does not
\* fail: the record is produced, the fields of that row are empty and the
\* fields of the rows that are there are not.
C15_AbsentRowGivesEmptyField ==
    (ainfo.kind # "none" /\ AddressRowsWellFormed) =>
        /\ ainfo.kind = "value"
        /\ \A label \in Labels : \A name \in FieldsOf(label) :
              arows[label].found
                  \/ Field(ainfo.val, name) = <<>>
        /\ \A label \in PlainLabels \cup MoreLabels :
              \A name \in FieldsOf(label) :
                  arows[label].found => Field(ainfo.val, name) # <<>>

\* C16: when the conventional layout is absent the manufactured-home layout
\* is tried; when that is found its record is returned; when it is not,
\* however the second lookup fails, get_residential_building returns an
\* empty record and logs an error, and run goes on.
C16_UnknownBuildingGivesEmptyRecord ==
    (binfo.kind # "none" /\ bpage.res = "listed"
         /\ bpage.conventional # "found") =>
        /\ bpage.manufactured = "found" =>
              binfo = Returned("dict", ManufacturedBuilding)
        /\ bpage.manufactured # "found" =>
              /\ binfo = Returned("dict", <<>>)
              /\ alog # <<>>
              /\ alog[Len(alog)] = "error: unknown residential building"
              /\ apc = "done"

(***************************************************************************)
(* Claims about the entry points                                           *)
(***************************************************************************)
\* C20: in dry-run mode every entry point, that of the account scraper, of
\* the property scraper and of the jail viewer, performs no operation on the
\* query surface and no write to the sink, and has printed its resolved
\* roots when it ends.
C20_DryRunTouchesNothing ==
    dry_run =>
        /\ mruns = <<>>
        /\ jops = <<>>
        /\ mwrites = <<>>
        /\ jfiles = NoFiles
        /\ mpc = "done" => printed = mroots

(***************************************************************************)
(* Claims about the detail pages of get_booking                            *)
(***************************************************************************)
\* The retried call of get_booking has finished and get_page has not gone on.
BookingCallFinished == jpc = "booking" /\ rpc \in {"returned", "raised"}

\* C23: when the retried get_booking call has returned or raised, no detail
\* page that it opened is left open in the browser context, however many
\* attempts the call needed.
C23_NoDetailPageLeftOpen == BookingCallFinished => left_open = 0

(***************************************************************************)
(* Claims about the loop of the property scraper                           *)
(***************************************************************************)
\* The lines of the output file that follow the first n of them.
LinesAfter(lines, n) == SubSeq(lines, n + 1, Len(lines))

\* C21: the output of the property scraper is all-or-nothing for a root.
\* The output file changes only in a step taken after the enumeration of the
\* current root has returned, and that step appends, after the lines the file
\* held, a header if it held none and one line for every record of the root,
\* in order.  While the enumeration of a root runs nothing is written.  Once
\* a leaf has raised, nothing is written, the lines of the earlier roots stay
\* as they are, and no further root is handed to run and no further query is
\* submitted.
C21_RootAllOrNothing ==
    [][/\ (file' # file \/ wlog' # wlog) =>
              /\ mpc = "run"
              /\ stack = <<>>
              /\ result.kind = "ok"
              /\ IsPrefix(file.lines, file'.lines)
              /\ LET added == LinesAfter(file'.lines, Len(file.lines))
                     rows == IF file.lines = <<>> THEN Tail(added) ELSE added
                 IN  /\ Len(rows) = Len(result.rows)
                     /\ \A j \in 1..Len(rows) :
                           rows[j] = <<result.rows[j].account,
                                       result.rows[j].map_and_tax_lot>>
       /\ stack # <<>> => (file' = file /\ wlog' = wlog)
       /\ result.kind = "error" =>
              /\ file' = file
              /\ wlog' = wlog
              /\ mruns' = mruns
              /\ queries' = queries
              /\ stack' = <<>>]_vars

\* C21 witness: the first root was enumerated and its record written to a
\* fresh file; the only leaf of the second root raised for a count mismatch;
\* main has ended with the file holding the first root's lines alone and the
\* third root not handed to run.
C21_Witness ==
    /\ mroots = <<1, 10, 2>>
    /\ mpc = "raised"
    /\ mruns = <<1, 10>>
    /\ result.err = "mismatch"
    /\ file0 = NoFile
    /\ Len(wlog) = 1
    /\ file.lines =
          << <<"account", "map_and_tax_lot">> >>
              \o [j \in 1..Len(wlog[1]) |-> <<wlog[1][j][1][2], wlog[1][j][2][2]>>]
    /\ queries = << <<1>>, <<1, 0>> >>

====
